---- MODULE Spec2Model ----
(***************************************************************************)
(* Model of run.py: the NETCONF wrapper (class netconf), the CLI wrapper   *)
(* (class ssh) and the demonstration driver (main), run against a device   *)
(* that is the environment of the program.                                 *)
(*                                                                         *)
(* Two specifications share the wrapper's steps:                           *)
(*   Spec     the driver main() running its fixed script against a device; *)
(*   SpecApi  a caller invoking the six NETCONF wrapper operations with    *)
(*            arbitrary arguments, the device answering reads with any     *)
(*            parsed response of a bounded shape.                          *)
(***************************************************************************)
EXTENDS Integers, Sequences, FiniteSets, TLC

\* ------------------------------------------------------------------ bounds

\* Longest community-list a response of SpecApi carries.
MaxListLen == 3

\* Number of wrapper calls the caller of SpecApi makes.
MaxCalls == 2

\* ------------------------------------------------------- values of the code

DemoRouteMap == "TEST_REPLICATION_BUG_NETCONF"

Names == {DemoRouteMap, "OTHER_MAP"}

Seqs == {10, 20}

Tokens == {"655370", "10:10", "1:1"}

Actions == {"permit", "deny", "allow"}

Range(s) == {s[i] : i \in DOMAIN s}

\* ------------------------------------------- parsed XML (xmltodict.parse)
\* A parsed value is a mapping (an element with children or attributes), None
\* (an element with no children and no text), a string (a text-only element) or
\* a list (several sibling elements of one name).

PyDict(items) == [tag |-> "dict", items |-> items]

PyNone == [tag |-> "none"]

PyStr(s) == [tag |-> "str", str |-> s]

PyList(l) == [tag |-> "list", list |-> l]

\* The keys getRouteMapBGPCommunity subscripts, outermost first.
Path ==
  << "data", "native", "route-map", "route-map-without-order-seq",
     "set", "community", "community-well-known", "community-list" >>

Returned(v) == [ok |-> TRUE, val |-> v, exc |-> "none"]

Raised(e) == [ok |-> FALSE, val |-> PyNone, exc |-> e]

\* v[k] in Python: a mapping yields the value or KeyError; None, a string and a
\* list subscripted by a string raise TypeError.
GetItem(v, k) ==
  IF v.tag = "dict"
  THEN IF k \in DOMAIN v.items THEN Returned(v.items[k]) ELSE Raised("KeyError")
  ELSE Raised("TypeError")

\* v[keys[1]][keys[2]]...: the chained subscripts, stopping at the first raise.
RECURSIVE Subscript(_, _)
Subscript(v, keys) ==
  IF keys = << >> THEN Returned(v)
  ELSE LET r == GetItem(v, Head(keys))
       IN IF r.ok THEN Subscript(r.val, Tail(keys)) ELSE r

\* l without the repetitions of an entry.
RECURSIVE Distinct(_)
Distinct(l) ==
  IF l = << >> THEN l
  ELSE LET init == Distinct(SubSeq(l, 1, Len(l) - 1))
       IN IF l[Len(l)] \in Range(init) THEN init ELSE Append(init, l[Len(l)])

\* The type test, were it to drop repeated entries of a list.
ShapeCommunitiesDistinct(field) ==
  IF field.tag = "str" THEN [exc |-> "none", list |-> << field.str >>]
  ELSE IF field.tag = "list" THEN [exc |-> "none", list |-> Distinct(field.list)]
  ELSE [exc |-> "KeyError", list |-> << >>]

\* The AA:NN form of a token (655370 = 10 * 65536 + 10).
Canonical(t) == IF t = "655370" THEN "10:10" ELSE t

\* The type test, were tokens of one community taken for one entry.
ShapeCommunitiesEquivalent(field) ==
  IF field.tag = "str" THEN [exc |-> "none", list |-> << field.str >>]
  ELSE IF field.tag = "list"
  THEN [exc |-> "none",
        list |-> Distinct([i \in DOMAIN field.list |-> Canonical(field.list[i])])]
  ELSE [exc |-> "KeyError", list |-> << >>]

\* The type test, were the single string not looked for.
ShapeCommunitiesListOnly(field) ==
  IF field.tag = "list" THEN [exc |-> "none", list |-> field.list]
  ELSE [exc |-> "KeyError", list |-> << >>]

\* The type test of the processing step: a string becomes a one-element list, a
\* list is used as it is, anything else raises KeyError.
ShapeCommunities(field) ==
  IF field.tag = "str" THEN [exc |-> "none", list |-> << field.str >>]
  ELSE IF field.tag = "list" THEN [exc |-> "none", list |-> field.list]
  ELSE [exc |-> "KeyError", list |-> << >>]

\* The try/except of getRouteMapBGPCommunity: KeyError is caught and gives the
\* empty list; any other exception leaves the function.
ProcessCommunities(resp) ==
  LET r == Subscript(resp, Path)
      s == IF r.ok THEN ShapeCommunities(r.val)
           ELSE [exc |-> r.exc, list |-> << >>]
  IN IF s.exc = "KeyError" THEN [exc |-> "none", list |-> << >>] ELSE s

\* The presence test of getBGPCommunityNewFormat, 'native' in resp['data']: a
\* key test on a mapping, a substring test on a string, a membership test on a
\* list, TypeError on None.
ProcessNewFormat(resp) ==
  LET r == GetItem(resp, "data")
  IN IF ~r.ok THEN [exc |-> r.exc, bool |-> FALSE]
     ELSE IF r.val.tag = "dict"
     THEN [exc |-> "none", bool |-> "native" \in DOMAIN r.val.items]
     ELSE IF r.val.tag = "str" THEN [exc |-> "none", bool |-> FALSE]
     ELSE IF r.val.tag = "list"
     THEN [exc |-> "none", bool |-> "native" \in Range(r.val.list)]
     ELSE [exc |-> "TypeError", bool |-> FALSE]

\* ------------------------------------------------ responses a device can give

\* The attributes xmltodict keeps beside the children of an element.
Attrs == [k \in {"@xmlns"} |-> PyStr("urn")]

\* The mapping nest keys[1] -> keys[2] -> ... -> v.
RECURSIVE Wrap(_, _)
Wrap(v, keys) ==
  IF keys = << >> THEN v
  ELSE PyDict((Head(keys) :> Wrap(v, Tail(keys))) @@ Attrs)

Prefix(d) == SubSeq(Path, 1, d)

TokenLists == UNION {[1..n -> Tokens] : n \in 0..MaxListLen}

\* What stands where the next key of the path is looked up, when that key is
\* absent: a mapping without the key, an element with no children, a text-only
\* element, repeated elements.
AbsentStops == {PyDict(Attrs), PyNone, PyStr("1:1"), PyList(<< "1:1" >>)}

\* The community-list field itself: a string, a list, an empty element, or a
\* mapping (an element carrying attributes).
FieldShapes ==
  {PyStr(t) : t \in Tokens} \cup {PyList(l) : l \in TokenLists}
    \cup {PyNone, PyDict(Attrs)}

\* Responses in which the path breaks after d keys.
\* (xmltodict.parse itself always returns a mapping, so only a mapping stands at
\* the top.)
AbsentResponses ==
  {Wrap(stop, Prefix(d)) : stop \in AbsentStops, d \in 1..(Len(Path) - 1)}
    \cup {PyDict(Attrs)}

FieldResponses == {Wrap(f, Path) : f \in FieldShapes}

\* A reply xmltodict.parse cannot parse.
Malformed == [tag |-> "malformed"]

\* The raw XML document get_config returns, which getRouteMapByName passes on.
RawXml == [tag |-> "xml"]

NoReply == [tag |-> "noreply"]

Responses == AbsentResponses \cup FieldResponses

\* ------------------------------------------------------- wrapper operations

ReadOps == {"getRouteMapByName", "getRouteMapBGPCommunity", "getBGPCommunityNewFormat"}

WriteOps == {"setRouteMap", "setRouteMapBGPCommunity", "setBGPCommunityNewFormat"}

\* The default values of the parameters, as the signatures give them.
Defaults(op) ==
  CASE op = "getRouteMapByName" -> [routeMapName |-> "routeMapName"]
    [] op = "setRouteMap" ->
         [routeMapSequence |-> 10, routeMapOperation |-> "permit", delete |-> FALSE]
    [] op = "getRouteMapBGPCommunity" -> [routeMapSequence |-> 10]
    [] op = "setRouteMapBGPCommunity" ->
         [routeMapSequence |-> 10, BGPCommunity |-> "1:1", delete |-> FALSE]
    [] op = "setBGPCommunityNewFormat" -> [delete |-> FALSE]
    [] op = "getRouteMapConfig" -> [routeMapName |-> ""]
    [] OTHER -> << >>

\* Values standing for the parameters an operation does not have.
NoParams ==
  [routeMapName |-> "", routeMapSequence |-> 0, routeMapOperation |-> "",
   BGPCommunity |-> "", delete |-> FALSE]

\* A call of op with the keyword arguments kwargs: the arguments given, then
\* the defaults of the signature.
Invoke(op, kwargs) == ([op |-> op] @@ kwargs) @@ Defaults(op) @@ NoParams

NoCall == Invoke("none", << >>)

\* "{}".format(n) for a non-negative integer: its decimal digits.
RECURSIVE FormatInt(_)
FormatInt(n) ==
  IF n < 10 THEN << n >> ELSE Append(FormatInt(n \div 10), n % 10)

RECURSIVE ParseInt(_)
ParseInt(ds) ==
  IF ds = << >> THEN 0
  ELSE 10 * ParseInt(SubSeq(ds, 1, Len(ds) - 1)) + ds[Len(ds)]

\* The tag, were the delete flag never looked at.
OperationTagMergeOnly(delete) == "merge"

\* operation = "merge", changed to "remove" if the delete flag is set.
OperationTag(delete) == IF delete THEN "remove" ELSE "merge"

\* The check, were it skipped when the route-map is being deleted.
ValidOperationUnlessDelete(c) ==
  c.delete \/ ~(c.routeMapOperation # "permit" /\ c.routeMapOperation # "deny")

\* The check of setRouteMap on its action argument.
ValidOperation(c) ==
  ~(c.routeMapOperation # "permit" /\ c.routeMapOperation # "deny")

NoRpc ==
  [kind |-> "none", datastore |-> "", node |-> "", operation |-> "", name |-> "",
   seq_no |-> << >>, routeMapOperation |-> "", community |-> ""]

\* The filter or configuration a call builds from its template, with the RPC
\* that carries it.
Build(c) ==
  CASE c.op = "getRouteMapByName" ->
         [NoRpc EXCEPT !.kind = "get-config", !.datastore = "running",
                       !.node = "route-map", !.name = c.routeMapName]
    [] c.op = "setRouteMap" ->
         [NoRpc EXCEPT !.kind = "edit-config", !.datastore = "running",
                       !.node = "route-map", !.operation = OperationTag(c.delete),
                       !.name = c.routeMapName,
                       !.seq_no = FormatInt(c.routeMapSequence),
                       !.routeMapOperation = c.routeMapOperation]
    [] c.op = "getRouteMapBGPCommunity" ->
         [NoRpc EXCEPT !.kind = "get-config", !.datastore = "running",
                       !.node = "route-map-without-order-seq",
                       !.name = c.routeMapName,
                       !.seq_no = FormatInt(c.routeMapSequence)]
    [] c.op = "setRouteMapBGPCommunity" ->
         [NoRpc EXCEPT !.kind = "edit-config", !.datastore = "running",
                       !.node = "community-list",
                       !.operation = OperationTag(c.delete),
                       !.name = c.routeMapName,
                       !.seq_no = FormatInt(c.routeMapSequence),
                       !.community = c.BGPCommunity]
    [] c.op = "getBGPCommunityNewFormat" ->
         [NoRpc EXCEPT !.kind = "get-config", !.datastore = "running",
                       !.node = "bgp-community"]
    [] c.op = "setBGPCommunityNewFormat" ->
         [NoRpc EXCEPT !.kind = "edit-config", !.datastore = "running",
                       !.node = "new-format", !.operation = OperationTag(c.delete)]
    [] OTHER -> NoRpc

\* Whether the call parses the reply with xmltodict inside the session.
ParsesReply(c) == c.op \in {"getRouteMapBGPCommunity", "getBGPCommunityNewFormat"}

\* ------------------------------------------------------------ the device
\* The device is the environment of the program.  Its running datastore holds,
\* for every route-map name and sequence number, whether the entry exists, its
\* action and the community tokens set on it, and the new-format toggle.  A
\* device keeps community tokens verbatim or stores them in one canonical
\* form, and it honours or ignores remove edits; both are fixed per device.

NoEntry == [present |-> FALSE, operation |-> "permit", communities |-> << >>]

CleanDevice == [rm |-> [k \in Names \X Seqs |-> NoEntry], newFormat |-> FALSE]

Stored(t, verbatim) == IF verbatim THEN t ELSE Canonical(t)

Without(l, t) == SelectSeq(l, LAMBDA u : u # t)

HasEntry(d, n, q) == << n, q >> \in DOMAIN d.rm /\ d.rm[<< n, q >>].present

\* The running datastore after an edit-config the device accepts.
ApplyEdit(d, rpc, verbatim, honours) ==
  LET q == ParseInt(rpc.seq_no)
      k == << rpc.name, q >>
      t == Stored(rpc.community, verbatim)
  IN CASE rpc.node = "new-format" /\ rpc.operation = "merge" ->
            [d EXCEPT !.newFormat = TRUE]
       [] rpc.node = "new-format" /\ rpc.operation = "remove" ->
            IF honours THEN [d EXCEPT !.newFormat = FALSE] ELSE d
       [] rpc.node = "route-map" /\ rpc.operation = "merge" /\ k \in DOMAIN d.rm ->
            [d EXCEPT !.rm[k].present = TRUE,
                      !.rm[k].operation = rpc.routeMapOperation]
       [] rpc.node = "route-map" /\ rpc.operation = "remove" ->
            IF honours
            THEN [d EXCEPT !.rm = [j \in DOMAIN d.rm |->
                                     IF j[1] = rpc.name THEN NoEntry ELSE d.rm[j]]]
            ELSE d
       [] rpc.node = "community-list" /\ rpc.operation = "merge"
            /\ k \in DOMAIN d.rm ->
            [d EXCEPT !.rm[k].present = TRUE,
                      !.rm[k].communities =
                         IF t \in Range(@) THEN @ ELSE Append(@, t)]
       [] rpc.node = "community-list" /\ rpc.operation = "remove"
            /\ k \in DOMAIN d.rm ->
            IF honours /\ d.rm[k].present
            THEN [d EXCEPT !.rm[k].communities = Without(@, t)]
            ELSE d
       [] OTHER -> d

\* xmltodict's rendering of the community-list elements: one element parses to
\* a string, several to a list.
ParsedList(l) == IF Len(l) = 1 THEN PyStr(l[1]) ELSE PyList(l)

\* The parsed reply to the get-config of getRouteMapBGPCommunity.
RenderCommunities(d, rpc) ==
  LET q == ParseInt(rpc.seq_no)
  IN IF ~HasEntry(d, rpc.name, q) THEN Wrap(PyDict(Attrs), Prefix(1))
     ELSE LET l == d.rm[<< rpc.name, q >>].communities
          IN IF l = << >> THEN Wrap(PyDict(Attrs), Prefix(4))
             ELSE Wrap(ParsedList(l), Path)

\* The parsed reply to the get-config of getBGPCommunityNewFormat.
RenderNewFormat(d) ==
  IF d.newFormat
  THEN Wrap(PyNone, << "data", "native", "ip", "bgp-community", "new-format" >>)
  ELSE Wrap(PyDict(Attrs), Prefix(1))

\* The reply of the device to a get-config.
Render(d, rpc) ==
  CASE rpc.node = "route-map-without-order-seq" -> RenderCommunities(d, rpc)
    [] rpc.node = "bgp-community" -> RenderNewFormat(d)
    [] OTHER -> RawXml

\* ------------------------------------------------------------ the driver

\* A statement of main that reaches the device, in the section it stands in:
\* 0 is the initialization, 1 to 6 the demos, 7 the clean-up.
Stmt(demo, op, kwargs) == [demo |-> demo, call |-> Invoke(op, kwargs)]

ByName == [routeMapName |-> DemoRouteMap]

Community(t) == [routeMapName |-> DemoRouteMap, BGPCommunity |-> t]

Read == [routeMapName |-> DemoRouteMap, routeMapSequence |-> 10]

Delete == [delete |-> TRUE]

\* The construction of the CLI wrapper and the preparation section.
Initialization ==
  << Stmt(0, "ssh", << >>),
     Stmt(0, "setBGPCommunityNewFormat", Delete),
     Stmt(0, "setRouteMap", ByName @@ Delete) >>

\* Demo #1: the switch to new-format.
Demo1 ==
  << Stmt(1, "setRouteMapBGPCommunity", Community("655370")),
     Stmt(1, "getRouteMapBGPCommunity", Read),
     Stmt(1, "getRouteMapConfig", ByName),
     Stmt(1, "setBGPCommunityNewFormat", << >>),
     Stmt(1, "getRouteMapBGPCommunity", Read),
     Stmt(1, "getRouteMapConfig", ByName) >>

\* Demo #2: the duplicate entry.
Demo2 ==
  << Stmt(2, "setRouteMapBGPCommunity", Community("10:10")),
     Stmt(2, "getRouteMapBGPCommunity", Read),
     Stmt(2, "getRouteMapConfig", ByName) >>

\* Demo #3: the removal of one of the two.
Demo3 ==
  << Stmt(3, "setRouteMapBGPCommunity", Community("10:10") @@ Delete),
     Stmt(3, "getRouteMapBGPCommunity", Read),
     Stmt(3, "getRouteMapConfig", ByName) >>

\* Demo #4: new-format disabled again.
Demo4 ==
  << Stmt(4, "setRouteMapBGPCommunity", Community("10:10")),
     Stmt(4, "setRouteMapBGPCommunity", Community("655370") @@ Delete),
     Stmt(4, "setBGPCommunityNewFormat", Delete),
     Stmt(4, "getRouteMapBGPCommunity", Read),
     Stmt(4, "getRouteMapConfig", ByName) >>

\* Demo #5, were the toggle set between the two reads.
Demo5ToggleBetweenReads ==
  << Stmt(5, "getRouteMapBGPCommunity", Read),
     Stmt(5, "setBGPCommunityNewFormat", << >>),
     Stmt(5, "getRouteMapConfig", ByName) >>

\* Demo #5: new-format enabled again.
Demo5 ==
  << Stmt(5, "setBGPCommunityNewFormat", << >>),
     Stmt(5, "getRouteMapBGPCommunity", Read),
     Stmt(5, "getRouteMapConfig", ByName) >>

\* Demo #6: the community sent again.
Demo6 ==
  << Stmt(6, "setRouteMapBGPCommunity", Community("10:10")),
     Stmt(6, "getRouteMapBGPCommunity", Read),
     Stmt(6, "getRouteMapConfig", ByName) >>

\* Demo #1 to Demo #6.
Demos == Demo1 \o Demo2 \o Demo3 \o Demo4 \o Demo5 \o Demo6

\* The clean-up section, were the toggle left as the demos set it.
CleanUpRouteMapOnly == << Stmt(7, "setRouteMap", ByName @@ Delete) >>

\* The clean-up section.
CleanUp ==
  << Stmt(7, "setRouteMap", ByName @@ Delete),
     Stmt(7, "setBGPCommunityNewFormat", Delete) >>

\* The device-facing statements of main, in program order.
Script == Initialization \o Demos \o CleanUp

\* ---------------------------------------------------------------- state

VARIABLES
  pc,              \* main: index in Script of the statement to run next
  status,          \* main: "running", "done", or "failed" (uncaught exception)
  issued,          \* the statements main has issued, in order
  failures,        \* the number of operations that raised into main
  communities,     \* main: its variable communities
  cliOut,          \* main: the CLI text printed last
  sshSession,      \* ssh.ssh: the CLI session of the wrapper instance (0: none)
  cliOpened,       \* the number of CLI sessions established
  cliUsed,         \* the CLI sessions commands were sent over
  phase,           \* netconf: the position inside the wrapper operation
  call,            \* netconf: the operation running and its arguments
  exc,             \* netconf: the exception raised, or "none"
  ret,             \* netconf: the value returned
  reply,           \* netconf: netconfResponse
  sent,            \* the RPC sent in the session of this call
  ncOpen,          \* the number of NETCONF sessions open
  ncOpenedInCall,  \* the number of NETCONF sessions this call has opened
  rpcsInCall,      \* the number of RPCs this call has sent
  devAtCall,       \* the datastore as it was when the last operation was issued
  dev,             \* the running datastore of the device
  devVerbatim,     \* the device keeps community tokens verbatim
  devHonours,      \* the device honours remove edits
  calls            \* SpecApi: the number of wrapper calls made

mainVars == << pc, status, issued, failures, communities, cliOut >>

sshVars == << sshSession, cliOpened, cliUsed >>

ncVars ==
  << phase, call, exc, ret, reply, sent, ncOpen, ncOpenedInCall, rpcsInCall >>

devVars == << dev, devVerbatim, devHonours >>

vars == << mainVars, sshVars, ncVars, devAtCall, devVars, calls >>

NoRet == [list |-> << >>, bool |-> FALSE]

\* What "show running-config | section route-map" can print.
CliOutputs == {"", "set community 655370", "set community 10:10"}

\* ------------------------------------------------- the NETCONF wrapper's steps

\* The session count, were the session closed only on the path without exception.
SessionsAfterExitLeak(n, e) == IF e = "none" THEN n - 1 ELSE n

\* The with statement leaves the session closed, whether its body raised or not.
SessionsAfterExit(n, e) == n - 1

\* The operation is entered: the delete flag and, in setRouteMap, the action
\* are examined and the filter or configuration is built.  No network yet.
NcCall(c) ==
  /\ phase = "idle"
  /\ call' = c
  /\ devAtCall' = dev
  /\ ret' = NoRet
  /\ reply' = NoReply
  /\ sent' = NoRpc
  /\ ncOpenedInCall' = 0
  /\ rpcsInCall' = 0
  /\ IF c.op = "setRouteMap" /\ ~ValidOperation(c)
     THEN phase' = "raised" /\ exc' = "ValueError"
     ELSE phase' = "built" /\ exc' = "none"
  /\ UNCHANGED << ncOpen, devVars >>

\* ncclientManager.connect: a session is opened, or the connection fails and
\* the exception leaves the operation.
NcConnect ==
  /\ phase = "built"
  /\ \/ /\ ncOpen' = ncOpen + 1
        /\ ncOpenedInCall' = ncOpenedInCall + 1
        /\ phase' = "inWith"
        /\ exc' = exc
     \/ /\ phase' = "raised"
        /\ exc' = "ConnectError"
        /\ UNCHANGED << ncOpen, ncOpenedInCall >>
  /\ UNCHANGED << call, ret, reply, sent, rpcsInCall, devAtCall, devVars,
                  mainVars, sshVars, calls >>

\* The body of the with statement: the one RPC is sent.  The device rejects it
\* (the datastore stays as it is), or accepts it: an edit is applied, a read is
\* answered with one of replies, which xmltodict parses or fails to parse.
NcRpc(replies) ==
  /\ phase = "inWith"
  /\ sent' = Build(call)
  /\ rpcsInCall' = rpcsInCall + 1
  /\ phase' = "leaving"
  /\ \/ /\ exc' = "RPCError"
        /\ UNCHANGED << reply, dev >>
     \/ /\ call.op \in WriteOps
        /\ dev' = ApplyEdit(dev, Build(call), devVerbatim, devHonours)
        /\ UNCHANGED << reply, exc >>
     \/ /\ call.op \in ReadOps
        /\ \E r \in replies :
             /\ reply' = r
             /\ exc' = IF ParsesReply(call) /\ r = Malformed
                       THEN "ExpatError" ELSE "none"
        /\ dev' = dev
  /\ UNCHANGED << call, ret, ncOpen, ncOpenedInCall, devAtCall, devVerbatim,
                  devHonours, mainVars, sshVars, calls >>

\* The replies of the device of the driver run.
DeviceReplies ==
  IF ParsesReply(call) THEN {Render(dev, Build(call)), Malformed}
  ELSE {Render(dev, Build(call))}

\* Any parsed response of the bounded shapes.
AnyReplies ==
  IF ParsesReply(call) THEN Responses \cup {Malformed} ELSE {RawXml}

NcRpcDevice == NcRpc(DeviceReplies)

NcRpcAny == NcRpc(AnyReplies)

\* The with statement is left and the session closed; then, unless the body
\* raised, the response is processed and the operation returns or raises.
NcExit ==
  /\ phase = "leaving"
  /\ ncOpen' = SessionsAfterExit(ncOpen, exc)
  /\ IF exc # "none"
     THEN phase' = "raised" /\ UNCHANGED << exc, ret >>
     ELSE CASE call.op = "getRouteMapBGPCommunity" ->
                 LET r == ProcessCommunities(reply)
                 IN /\ exc' = r.exc
                    /\ ret' = [ret EXCEPT !.list = r.list]
                    /\ phase' = IF r.exc = "none" THEN "returned" ELSE "raised"
            [] call.op = "getBGPCommunityNewFormat" ->
                 LET r == ProcessNewFormat(reply)
                 IN /\ exc' = r.exc
                    /\ ret' = [ret EXCEPT !.bool = r.bool]
                    /\ phase' = IF r.exc = "none" THEN "returned" ELSE "raised"
            [] OTHER -> phase' = "returned" /\ UNCHANGED << exc, ret >>
  /\ UNCHANGED << call, reply, sent, ncOpenedInCall, rpcsInCall, devAtCall,
                  devVars, mainVars, sshVars, calls >>

\* The caller has the result: the wrapper holds nothing between calls.
NcForget ==
  /\ phase' = "idle"
  /\ call' = NoCall
  /\ exc' = "none"
  /\ ret' = NoRet
  /\ reply' = NoReply
  /\ sent' = NoRpc
  /\ ncOpenedInCall' = 0
  /\ rpcsInCall' = 0
  /\ UNCHANGED << ncOpen, devAtCall >>

\* ------------------------------------------------------------ main's steps

\* The flow, were the CLI read skipped after an empty NETCONF read.
AfterReturnSkipOnEmpty(p, comms, cli) == IF comms = << >> THEN p + 2 ELSE p + 1

\* Straight-line code: the statement after p runs next, whatever was read.
AfterReturn(p, comms, cli) == p + 1

\* The flow, were the exception caught and the run carried on.
AfterRaiseCarryOn(p) == [status |-> "running", pc |-> p + 1]

\* No try statement in main: an exception ends the run at statement p.
AfterRaise(p) == [status |-> "failed", pc |-> p]

Goto(p, st) ==
  /\ pc' = p
  /\ status' = IF st = "running" /\ p > Len(Script) THEN "done" ELSE st

Running(op) ==
  /\ status = "running"
  /\ phase = "idle"
  /\ pc \in DOMAIN Script
  /\ Script[pc].call.op \in op

RaiseIntoMain ==
  /\ failures' = failures + 1
  /\ Goto(AfterRaise(pc).pc, AfterRaise(pc).status)

\* ssh.__init__: netmiko.ConnectHandler establishes the CLI session and the
\* instance keeps it in self.ssh.
SshInit(opened) == [session |-> opened + 1, opened |-> opened + 1]

\* The read, were it to connect anew for every command.
SshSendReconnect(session, opened) == [session |-> opened + 1, opened |-> opened + 1]

\* ssh.getRouteMapConfig: the command goes over self.ssh; no session is made.
SshSend(session, opened) == [session |-> session, opened |-> opened]

\* sshSession = ssh(...)
MainSsh ==
  /\ Running({"ssh"})
  /\ issued' = Append(issued, Script[pc])
  /\ \/ /\ sshSession' = SshInit(cliOpened).session
        /\ cliOpened' = SshInit(cliOpened).opened
        /\ Goto(AfterReturn(pc, communities, cliOut), "running")
        /\ UNCHANGED failures
     \/ /\ RaiseIntoMain
        /\ UNCHANGED << sshSession, cliOpened >>
  /\ devAtCall' = dev
  /\ UNCHANGED << communities, cliOut, cliUsed, ncVars, devVars, calls >>

\* print(... + sshSession.getRouteMapConfig(...) + ...)
MainCli ==
  /\ Running({"getRouteMapConfig"})
  /\ issued' = Append(issued, Script[pc])
  /\ LET s == SshSend(sshSession, cliOpened)
     IN /\ sshSession' = s.session
        /\ cliOpened' = s.opened
        /\ cliUsed' = cliUsed \cup {s.session}
  /\ \/ \E out \in CliOutputs :
          /\ cliOut' = out
          /\ Goto(AfterReturn(pc, communities, out), "running")
          /\ UNCHANGED failures
     \/ /\ RaiseIntoMain
        /\ UNCHANGED cliOut
  /\ devAtCall' = dev
  /\ UNCHANGED << communities, ncVars, devVars, calls >>

\* nc.<operation>(...): the wrapper operation is entered.
MainNetconf ==
  /\ Running(ReadOps \cup WriteOps)
  /\ issued' = Append(issued, Script[pc])
  /\ NcCall(Script[pc].call)
  /\ UNCHANGED << pc, status, failures, communities, cliOut, sshVars, calls >>

\* The wrapper operation returns into main, or raises into it.
MainResume ==
  /\ status = "running"
  /\ phase \in {"returned", "raised"}
  /\ IF phase = "returned"
     THEN /\ communities' = IF call.op = "getRouteMapBGPCommunity"
                            THEN ret.list ELSE communities
          /\ Goto(AfterReturn(pc, communities', cliOut), "running")
          /\ UNCHANGED failures
     ELSE /\ RaiseIntoMain
          /\ UNCHANGED communities
  /\ NcForget
  /\ UNCHANGED << issued, cliOut, sshVars, devVars, calls >>

\* The datastores a driver run can find on the device.
InitialDevices ==
  { CleanDevice,
    [CleanDevice EXCEPT !.newFormat = TRUE,
       !.rm[<< DemoRouteMap, 10 >>] =
          [present |-> TRUE, operation |-> "deny", communities |-> << "10:10" >>]] }

InitWrappers ==
  /\ sshSession = 0
  /\ cliOpened = 0
  /\ cliUsed = {}
  /\ phase = "idle"
  /\ call = NoCall
  /\ exc = "none"
  /\ ret = NoRet
  /\ reply = NoReply
  /\ sent = NoRpc
  /\ ncOpen = 0
  /\ ncOpenedInCall = 0
  /\ rpcsInCall = 0
  /\ calls = 0

InitMain ==
  /\ pc = 1
  /\ status = "running"
  /\ issued = << >>
  /\ failures = 0
  /\ communities = << >>
  /\ cliOut = ""

Init ==
  /\ InitMain
  /\ InitWrappers
  /\ dev \in InitialDevices
  /\ devAtCall = dev
  /\ devVerbatim \in BOOLEAN
  /\ devHonours \in BOOLEAN

Next ==
  \/ MainSsh
  \/ MainCli
  \/ MainNetconf
  \/ NcConnect
  \/ NcRpcDevice
  \/ NcExit
  \/ MainResume

Spec == Init /\ [][Next]_vars

\* ---------------------------------------------- a caller of the NETCONF wrapper

ApiCalls ==
  {Invoke("getRouteMapByName", << >>)}
    \cup {Invoke("getRouteMapByName", [routeMapName |-> n]) : n \in Names}
    \cup {Invoke("setRouteMap", [routeMapName |-> n]) : n \in Names}
    \cup {Invoke("setRouteMap",
                 [routeMapName |-> n, routeMapSequence |-> q,
                  routeMapOperation |-> a, delete |-> b]) :
            n \in Names, q \in Seqs, a \in Actions, b \in BOOLEAN}
    \cup {Invoke("getRouteMapBGPCommunity", [routeMapName |-> n]) : n \in Names}
    \cup {Invoke("getRouteMapBGPCommunity",
                 [routeMapName |-> n, routeMapSequence |-> q]) :
            n \in Names, q \in Seqs}
    \cup {Invoke("setRouteMapBGPCommunity", [routeMapName |-> n]) : n \in Names}
    \cup {Invoke("setRouteMapBGPCommunity",
                 [routeMapName |-> n, routeMapSequence |-> q,
                  BGPCommunity |-> t, delete |-> b]) :
            n \in Names, q \in Seqs, t \in Tokens, b \in BOOLEAN}
    \cup {Invoke("getBGPCommunityNewFormat", << >>)}
    \cup {Invoke("setBGPCommunityNewFormat", << >>)}
    \cup {Invoke("setBGPCommunityNewFormat", [delete |-> b]) : b \in BOOLEAN}

ApiIssue ==
  /\ calls < MaxCalls
  /\ calls' = calls + 1
  /\ \E c \in ApiCalls : NcCall(c)
  /\ UNCHANGED << mainVars, sshVars >>

ApiResume ==
  /\ phase \in {"returned", "raised"}
  /\ NcForget
  /\ UNCHANGED << mainVars, sshVars, devVars, calls >>

InitApi ==
  /\ InitMain
  /\ InitWrappers
  /\ dev = CleanDevice
  /\ devAtCall = dev
  /\ devVerbatim = TRUE
  /\ devHonours = TRUE

NextApi ==
  \/ ApiIssue
  \/ NcConnect
  \/ NcRpcAny
  \/ NcExit
  \/ ApiResume

SpecApi == InitApi /\ [][NextApi]_vars

\* ------------------------------------------------------------------ claims

Finished == phase \in {"returned", "raised"}

\* C1: setRouteMap raises ValueError if and only if routeMapOperation is
\* neither "permit" nor "deny"; when it does, whatever the delete flag, no
\* session has been opened, no RPC sent and the datastore is as it was; with
\* "permit" or "deny" it raises no ValueError and the RPC it goes on to send is
\* its edit-config.
C1_InvalidActionFailsBeforeNetwork ==
  (call.op = "setRouteMap" /\ phase # "idle") =>
    /\ (phase = "raised" /\ exc = "ValueError")
         <=> call.routeMapOperation \notin {"permit", "deny"}
    /\ call.routeMapOperation \notin {"permit", "deny"} =>
         /\ ncOpen = 0
         /\ ncOpenedInCall = 0
         /\ rpcsInCall = 0
         /\ sent = NoRpc
         /\ dev = devAtCall
    /\ call.routeMapOperation \in {"permit", "deny"} =>
         /\ exc # "ValueError"
         /\ phase \in {"leaving", "returned"} =>
              rpcsInCall = 1 /\ sent.kind = "edit-config"

\* setRouteMap(delete=True) with action "allow" has raised on a device that
\* holds configuration.
C1_Witness ==
  /\ call.op = "setRouteMap"
  /\ call.routeMapOperation = "allow"
  /\ call.delete
  /\ phase = "raised"
  /\ exc = "ValueError"
  /\ dev # CleanDevice

\* The community-list field of a response that has it.
FieldOf(r) ==
  r.items["data"].items["native"].items["route-map"]
   .items["route-map-without-order-seq"].items["set"].items["community"]
   .items["community-well-known"].items["community-list"]

\* C2: getRouteMapBGPCommunity returns [s] when the community-list field of the
\* response is the single string s, and the list itself, same length, order and
\* duplicates, when the field is a list.
C2_FieldNormalised ==
  (call.op = "getRouteMapBGPCommunity" /\ Finished /\ reply \in FieldResponses) =>
    LET field == FieldOf(reply)
    IN /\ field.tag = "str" => phase = "returned" /\ ret.list = << field.str >>
       /\ field.tag = "list" => phase = "returned" /\ ret.list = field.list

\* A list with a repeated entry has been returned as it came.
C2_Witness ==
  /\ call.op = "getRouteMapBGPCommunity"
  /\ phase = "returned"
  /\ reply = Wrap(PyList(<< "10:10", "655370", "10:10" >>), Path)
  /\ ret.list = << "10:10", "655370", "10:10" >>

\* C3: for every response in which the community-list field or an ancestor on
\* its path is absent, also under a parent element without children,
\* getRouteMapBGPCommunity returns the empty list and never raises.
C3_AbsentPathGivesEmpty ==
  (call.op = "getRouteMapBGPCommunity" /\ Finished /\ reply \in AbsentResponses) =>
    phase = "returned" /\ ret.list = << >>

\* C4: a wrapper call that reaches the network opens one session and sends one
\* RPC in it, and the session is closed when the call returns or raises; at
\* most one session is open at any time and none between two calls.
C4_OneSessionOneRpc ==
  /\ ncOpen \in {0, 1}
  /\ ncOpenedInCall \in {0, 1}
  /\ rpcsInCall <= ncOpenedInCall
  /\ phase \in {"idle", "built", "returned", "raised"} => ncOpen = 0
  /\ phase \in {"inWith", "leaving"} => ncOpen = 1 /\ ncOpenedInCall = 1
  /\ phase = "leaving" => rpcsInCall = 1
  /\ phase = "returned" => ncOpenedInCall = 1 /\ rpcsInCall = 1
  /\ (phase = "raised" /\ ncOpenedInCall = 1) => rpcsInCall = 1

\* The parsing of the response failed inside the session, and the call has
\* raised with the session closed.
C4_Witness ==
  /\ phase = "raised"
  /\ exc = "ExpatError"
  /\ ncOpenedInCall = 1
  /\ rpcsInCall = 1
  /\ ncOpen = 0

\* C5: the edit-config of setRouteMap, setRouteMapBGPCommunity and
\* setBGPCommunityNewFormat is tagged "remove" exactly when delete is true and
\* "merge" exactly when it is false, which it is when not given; the edit is
\* for the running datastore and carries the name, sequence number and
\* community of the call.
C5_EditTagFollowsDelete ==
  (call.op \in WriteOps /\ rpcsInCall = 1) =>
    /\ sent.kind = "edit-config"
    /\ sent.datastore = "running"
    /\ sent.operation = "remove" <=> call.delete
    /\ sent.operation = "merge" <=> ~call.delete
    /\ call \in {Invoke("setBGPCommunityNewFormat", << >>),
                 Invoke("setRouteMap", [routeMapName |-> call.routeMapName]),
                 Invoke("setRouteMapBGPCommunity",
                        [routeMapName |-> call.routeMapName])} =>
         sent.operation = "merge"
    /\ call.op \in {"setRouteMap", "setRouteMapBGPCommunity"} =>
         /\ sent.name = call.routeMapName
         /\ ParseInt(sent.seq_no) = call.routeMapSequence
    /\ call.op = "setRouteMapBGPCommunity" => sent.community = call.BGPCommunity

\* A community removal on sequence 20 has been sent.
C5_Witness ==
  /\ call = Invoke("setRouteMapBGPCommunity",
                   [routeMapName |-> "OTHER_MAP", routeMapSequence |-> 20,
                    BGPCommunity |-> "655370", delete |-> TRUE])
  /\ rpcsInCall = 1
  /\ sent.operation = "remove"
  /\ sent.seq_no = << 2, 0 >>

IsToggleReset(s) == s.call.op = "setBGPCommunityNewFormat" /\ s.call.delete

IsRouteMapDelete(s) ==
  s.call.op = "setRouteMap" /\ s.call.delete /\ s.call.routeMapName = DemoRouteMap

IsCliRead(s) == s.call.op = "getRouteMapConfig"

Where(P(_)) == {i \in DOMAIN issued : P(issued[i])}

InDemos(s) == s.demo \in 1..6

InCleanUp(s) == s.demo = 7

Min(S) == CHOOSE x \in S : \A y \in S : x <= y

Max(S) == CHOOSE x \in S : \A y \in S : x >= y

\* C6: the CLI wrapper instance establishes one CLI session, when it is
\* constructed, and every getRouteMapConfig goes over that session: no read
\* opens or replaces a session, and a whole run has opened exactly one.
C6_OneCliSession ==
  /\ cliOpened <= 1
  /\ sshSession \in {0, cliOpened}
  /\ sshSession = 0 => Where(IsCliRead) = {}
  /\ Where(IsCliRead) # {} => cliUsed = {1} /\ sshSession = 1
  /\ status = "done" => cliOpened = 1 /\ Cardinality(Where(IsCliRead)) > 1

\* A run has ended after several CLI reads, all over the one session.
C6_Witness ==
  /\ status = "done"
  /\ Cardinality(Where(IsCliRead)) = 7
  /\ cliUsed = {1}
  /\ cliOpened = 1

\* C7: in a run without failure the toggle reset and the deletion of the demo
\* route-map are both issued before the first demo operation and both again
\* after the last, and nothing else after the last; on a device that honours
\* remove edits the run ends with the route-map absent and the toggle off.
C7_BaselineBeforeAndAfter ==
  status = "done" =>
    /\ Where(InDemos) # {}
    /\ LET first == Min(Where(InDemos))
           last == Max(Where(InDemos))
           after == (last + 1)..Len(issued)
       IN /\ \E i, j \in 1..(first - 1) :
               IsToggleReset(issued[i]) /\ IsRouteMapDelete(issued[j])
          /\ \E i, j \in after :
               /\ IsToggleReset(issued[i])
               /\ IsRouteMapDelete(issued[j])
               /\ after = {i, j}
    /\ devHonours =>
         /\ ~dev.newFormat
         /\ \A q \in Seqs : ~HasEntry(dev, DemoRouteMap, q)

\* A run has ended on a device that honours removes, the last operation having
\* found the toggle on.
C7_Witness ==
  /\ status = "done"
  /\ devHonours
  /\ devAtCall.newFormat
  /\ ~dev.newFormat
  /\ ~HasEntry(dev, DemoRouteMap, 10)

\* C8: what main issues does not depend on what the device returns: in every
\* run without failure the operations issued so far are the first statements of
\* the one fixed sequence, arguments included, and a finished run has issued
\* all of it, the six demos included.
C8_SequenceIndependentOfReads ==
  failures = 0 =>
    /\ Len(issued) <= Len(Script)
    /\ issued = SubSeq(Script, 1, Len(issued))
    /\ status = "done" =>
         /\ Len(issued) = Len(Script)
         /\ {issued[i].demo : i \in Where(InDemos)} = 1..6

\* A run has ended on a device that rewrites tokens, with the last NETCONF read
\* and the last CLI read both non-empty.
C8_Witness ==
  /\ status = "done"
  /\ failures = 0
  /\ ~devVerbatim
  /\ communities = << "10:10" >>
  /\ cliOut = "set community 10:10"

Failed == failures > 0 /\ phase = "idle"

FailedOnce ==
  /\ status = "failed"
  /\ failures = 1
  /\ Len(issued) = pc
  /\ dev = devAtCall

\* C9 as stated: after a failure the run has ended, the failed operation was
\* issued once and is the last one issued, the device is as the operations
\* before it left it, and no clean-up operation has been executed.
C9_NoCleanUpAfterFailure ==
  Failed =>
    /\ FailedOnce
    /\ \A i \in 1..(Len(issued) - 1) : ~InCleanUp(issued[i])

\* C9, amended: after a failure the run has ended, the failed operation was
\* issued once and is the last one issued, and the device is as the operations
\* before it left it; when the failed operation stands before the clean-up
\* section no clean-up operation has been issued, and in no case have both
\* clean-up operations been executed.
C9_FailureEndsRun ==
  Failed =>
    /\ FailedOnce
    /\ ~InCleanUp(issued[Len(issued)]) => Where(InCleanUp) = {}
    /\ Cardinality(Where(InCleanUp) \ {Len(issued)}) <= 1

\* The run has failed in Demo #4, leaving the route-map on the device.
C9_Witness ==
  /\ Failed
  /\ status = "failed"
  /\ issued[Len(issued)].demo = 4
  /\ HasEntry(dev, DemoRouteMap, 10)
  /\ dev.rm[<< DemoRouteMap, 10 >>].communities # << >>

LastIssued == issued[Len(issued)]

\* The NETCONF read of Demo #2 has returned into main.
Demo2ReadDone ==
  /\ status = "running"
  /\ phase = "idle"
  /\ issued # << >>
  /\ LastIssued.demo = 2
  /\ LastIssued.call.op = "getRouteMapBGPCommunity"

\* C10: on a device that keeps community tokens verbatim, the NETCONF read of
\* Demo #2, made after "655370" and then "10:10" were merged on sequence 10 and
\* neither removed, holds both "655370" and "10:10".
C10_BothFormsReported ==
  (devVerbatim /\ Demo2ReadDone) =>
    {"655370", "10:10"} \subseteq Range(communities)

\* The read of Demo #2 has returned the two tokens in the order of the merges.
C10_Witness ==
  /\ devVerbatim
  /\ Demo2ReadDone
  /\ communities = << "655370", "10:10" >>

\* The NETCONF read of Demo #3 has returned into main.
Demo3ReadDone ==
  /\ status = "running"
  /\ phase = "idle"
  /\ issued # << >>
  /\ LastIssued.demo = 3
  /\ LastIssued.call.op = "getRouteMapBGPCommunity"

\* C11: on a device that keeps community tokens verbatim and deletes the equal
\* string on a remove, the NETCONF read that follows the removal of "10:10" in
\* Demo #3, "655370" still being merged on sequence 10, returns exactly
\* ["655370"]: one entry, no "10:10" and nothing else.
C11_OnlyDecimalRemains ==
  (devVerbatim /\ devHonours /\ Demo3ReadDone) =>
    /\ Len(communities) = 1
    /\ communities = << "655370" >>
    /\ "10:10" \notin Range(communities)

\* The read of Demo #3 has returned the one token left on the device.
C11_Witness ==
  /\ devVerbatim
  /\ devHonours
  /\ Demo3ReadDone
  /\ communities = << "655370" >>
  /\ dev.rm[<< DemoRouteMap, 10 >>].communities = << "655370" >>
  /\ dev.newFormat

IsCommunityRead(s) == s.call.op = "getRouteMapBGPCommunity"

IsMutation(s) == s.call.op \in WriteOps

InDemo(d) == {i \in DOMAIN issued : issued[i].demo = d}

\* Every NETCONF community read issued is followed at once by a CLI read of the
\* same route-map in the same demo, and every CLI read follows such a read.
ReadsPaired ==
  \A i \in DOMAIN issued :
    /\ (IsCommunityRead(issued[i]) /\ i < Len(issued)) =>
         /\ IsCliRead(issued[i + 1])
         /\ issued[i + 1].call.routeMapName = issued[i].call.routeMapName
         /\ issued[i + 1].demo = issued[i].demo
    /\ IsCliRead(issued[i]) =>
         /\ i > 1
         /\ IsCommunityRead(issued[i - 1])

\* In a finished run each demo began with a mutation, and each of its NETCONF
\* reads comes after a mutation of the demo and before a CLI read of the demo.
DemosOrdered ==
  status = "done" =>
    \A d \in 1..6 :
      /\ InDemo(d) # {}
      /\ IsMutation(issued[Min(InDemo(d))])
      /\ \E i \in InDemo(d) : IsCommunityRead(issued[i])
      /\ \A i \in InDemo(d) :
           IsCommunityRead(issued[i]) =>
             /\ \E m \in InDemo(d) : m < i /\ IsMutation(issued[m])
             /\ i + 1 \in InDemo(d)
             /\ IsCliRead(issued[i + 1])

\* A step in which main issues a CLI read.
CliReadIssued ==
  /\ Len(issued') = Len(issued) + 1
  /\ IsCliRead(issued'[Len(issued')])

\* C12: in each of the six demos a NETCONF mutation comes first, then a NETCONF
\* community read, then a CLI read; every community read is followed by a CLI
\* read of the same route-map with no mutation between them, and the datastore
\* is, when the CLI read is issued, what it was when the community read was.
C12_ReadsSideBySide ==
  /\ [](ReadsPaired /\ DemosOrdered)
  /\ [][CliReadIssued => (devAtCall' = devAtCall /\ dev' = dev /\ dev = devAtCall)]_vars

\* A run has ended with its seven pairs of reads, the last on a configured
\* device.
C12_Witness ==
  /\ status = "done"
  /\ failures = 0
  /\ Cardinality(Where(IsCommunityRead)) = 7
  /\ Cardinality(Where(IsCliRead)) = 7
  /\ communities # << >>

====
